---- MODULE Spec2Model ----
(***************************************************************************)
(* Model of the BLE temperature plotter (src/ui/src/main.rs).              *)
(*                                                                         *)
(* Three parties are modelled:                                             *)
(*   - the main thread: main() up to eframe::run_native, the frame loop    *)
(*     (UI::update) and the return of main;                                *)
(*   - the acquisition thread: TemperatureSendor::run, one action per      *)
(*     await point / fallible step;                                        *)
(*   - the BLE stack: which calls fail, which adapters and peripherals it  *)
(*     reports, which notifications it delivers.                           *)
(* Samples are IEEE-754 binary32 values, represented exactly as            *)
(* <<sign, mantissa, exponent>> with value (-1)^sign * mantissa * 2^exp.   *)
(***************************************************************************)
EXTENDS Integers, Sequences, FiniteSets, TLC

(***************************************************************************)
(* Bounds of the model.                                                    *)
(***************************************************************************)
\* adapters the platform reports, at most
MaxAdapters == 2
\* peripherals the scan discovers, at most
MaxPeriph == 3
\* notifications delivered under Spec (any payload)
MaxNotifs == 3
\* notifications delivered under SpecWindow (well-formed readings 1, 2, ...)
WindowNotifs == 12
\* length of the buffers decoded under SpecDecode, at most
MaxBufLen == 6

(***************************************************************************)
(* binary32 arithmetic, round to nearest, ties to even.                    *)
(* A value is <<s, m, e>>: zero is <<0, 0, 0>>, any other value has        *)
(* 2^23 <= m < 2^24.  Every intermediate stays below 2^28.                 *)
(***************************************************************************)
Two23 == 8388608
Two24 == 16777216

F32Zero == <<0, 0, 0>>

RECURSIVE ShiftUp(_, _)
\* scale n >= 1 up by powers of two until 2^23 <= n; exact
ShiftUp(n, e) == IF n >= Two23 THEN <<n, e>> ELSE ShiftUp(2 * n, e - 1)

RECURSIVE ShiftDown(_, _, _)
\* scale n down to below 2^25 (one guard bit kept), recording lost bits in sticky
ShiftDown(n, e, sticky) ==
    IF n < 2 * Two24 THEN <<n, e, sticky>>
    ELSE ShiftDown(n \div 2, e + 1, sticky \/ (n % 2 = 1))

\* round a positive magnitude n * 2^e (plus a fraction of an ulp of n when
\* sticky) to 24 bits
F32Round(s, n, e, sticky) ==
    IF n < Two24 THEN
        LET r == ShiftUp(n, e) IN <<s, r[1], r[2]>>
    ELSE
        LET d    == ShiftDown(n, e, sticky)
            q    == d[1] \div 2
            half == d[1] % 2 = 1
            up   == half /\ (d[3] \/ q % 2 = 1)
            m    == IF up THEN q + 1 ELSE q
        IN  IF m = Two24 THEN <<s, Two23, d[2] + 2>> ELSE <<s, m, d[2] + 1>>

\* `value as f32` for an unsigned integer below 2^24 (exact)
F32FromU32(n) == IF n = 0 THEN F32Zero ELSE F32Round(0, n, 0, FALSE)

RECURSIVE LongDiv(_, _, _, _)
\* k more quotient bits of r / d, r < d: <<quotient, remainder>>
LongDiv(q, r, d, k) ==
    IF k = 0 THEN <<q, r>>
    ELSE IF 2 * r >= d THEN LongDiv(2 * q + 1, 2 * r - d, d, k - 1)
         ELSE LongDiv(2 * q, 2 * r, d, k - 1)

\* a / b, b # 0
F32Div(a, b) ==
    IF a[2] = 0 THEN F32Zero
    ELSE LET s == (a[1] + b[1]) % 2
             l == LongDiv(a[2] \div b[2], a[2] % b[2], b[2], 25)
         IN  F32Round(s, l[1], a[3] - b[3] - 25, l[2] # 0)

\* |a| < |b| for nonzero a, b
F32MagLess(a, b) == a[3] < b[3] \/ (a[3] = b[3] /\ a[2] < b[2])

RECURSIVE ShiftRightSticky(_, _, _)
\* n / 2^k rounded down, with the lost bits recorded: <<n', sticky>>
ShiftRightSticky(n, k, sticky) ==
    IF k = 0 \/ n = 0 THEN <<n, sticky>>
    ELSE ShiftRightSticky(n \div 2, k - 1, sticky \/ (n % 2 = 1))

\* big - small for positive big > small: magnitude of the difference
F32MagSub(s, big, small) ==
    LET d == big[3] - small[3]
    IN  IF d <= 3 THEN
            \* exact at the exponent of small
            F32Round(s, big[2] * (2 ^ d) - small[2], small[3], FALSE)
        ELSE
            \* three guard bits below big, the rest of small is sticky
            LET sh == ShiftRightSticky(small[2], d - 3, FALSE)
                n  == big[2] * 8 - sh[1] - (IF sh[2] THEN 1 ELSE 0)
            IN  F32Round(s, n, big[3] - 3, sh[2])

\* a - b for a >= 0 and b > 0
F32Sub(a, b) ==
    IF a[2] = 0 THEN <<1, b[2], b[3]>>
    ELSE IF a = b THEN F32Zero
    ELSE IF F32MagLess(a, b) THEN F32MagSub(1, b, a)
    ELSE F32MagSub(0, a, b)

\* the literals of decode
F32_1000 == <<0, 16384000, -14>>
F32_32   == <<0, 8388608, -18>>
F32_1_8  == <<0, 15099494, -23>>

(***************************************************************************)
(* TemperatureSendor::decode.  A buffer is a sequence of bytes; the result *)
(* is an Option, modelled as a sequence of zero or one samples.            *)
(***************************************************************************)
\* U32LeMasked with the mask 0x0fffffff
U32LeMasked_WideMask(b) == b[1] + 256 * b[2] + 65536 * b[3] + Two24 * (b[4] % 16)

\* U32LeMasked reading the bytes in big-endian order
U32LeMasked_BigEndian(b) == b[4] + 256 * b[3] + 65536 * b[2]

\* u32::from_le_bytes(b) & 0x00ffffff.  The sum b1 + 2^8 b2 + 2^16 b3 + 2^24 b4
\* is taken modulo 2^24 on its upper half, 2^16 * ((b3 + 2^8 b4) mod 2^8), so
\* that no intermediate leaves the 32-bit integers of TLC.
U32LeMasked(b) == b[1] + 256 * b[2] + 65536 * ((b[3] + 256 * b[4]) % 256)

\* decode taking a reading of zero for "no sample"
decode_ZeroIsNone(buf) ==
    IF Len(buf) # 5 \/ U32LeMasked(SubSeq(buf, 2, 5)) = 0 THEN <<>>
    ELSE LET is_fahrenheit == buf[1] = 1
             value  == U32LeMasked(SubSeq(buf, 2, 5))
             valuef == F32Div(F32FromU32(value), F32_1000)
         IN  IF is_fahrenheit
             THEN << F32Div(F32Sub(valuef, F32_32), F32_1_8) >>
             ELSE << valuef >>

\* decode with the length test loosened to "at least 5 bytes"
decode_AtLeast5(buf) ==
    IF Len(buf) < 5 THEN <<>>
    ELSE LET is_fahrenheit == buf[1] = 1
             value  == U32LeMasked(SubSeq(buf, 2, 5))
             valuef == F32Div(F32FromU32(value), F32_1000)
         IN  IF is_fahrenheit
             THEN << F32Div(F32Sub(valuef, F32_32), F32_1_8) >>
             ELSE << valuef >>

decode(buf) ==
    IF Len(buf) # 5 THEN <<>>
    ELSE LET is_fahrenheit == buf[1] = 1
             value  == U32LeMasked(SubSeq(buf, 2, 5))
             valuef == F32Div(F32FromU32(value), F32_1000)
         IN  IF is_fahrenheit
             THEN << F32Div(F32Sub(valuef, F32_32), F32_1_8) >>
             ELSE << valuef >>

(***************************************************************************)
(* What the BLE stack can report.                                          *)
(***************************************************************************)
\* advertised local names, as sequences of characters
NameKitchen  == <<"K","i","t","c","h","e","n">>
NameLower    == <<"R","o","o","m"," ","t","e","m","p","e","r","a","t","u","r","e">>
NameOutdoor  == <<"O","u","t","d","o","o","r"," ","T","e","m","p","e","r","a","t","u","r","e">>
NameRoom     == <<"R","o","o","m"," ","T","e","m","p","e","r","a","t","u","r","e">>

\* the needle of find_sensor
Temperature == <<"T","e","m","p","e","r","a","t","u","r","e">>

\* what Peripheral::properties() resolves to: Err(_), Ok(None) or
\* Ok(Some(PeripheralProperties { local_name, .. })); local_name is an Option,
\* a sequence of zero or one names
PropsErr      == [tag |-> "Err",  local_name |-> <<>>]
PropsNone     == [tag |-> "None", local_name |-> <<>>]
PropsOf(name) == [tag |-> "Some", local_name |-> name]

PeripheralProps ==
    { PropsErr, PropsNone, PropsOf(<<>>), PropsOf(<<NameKitchen>>), PropsOf(<<NameLower>>),
      PropsOf(<<NameOutdoor>>), PropsOf(<<NameRoom>>) }

\* characteristic UUIDs: a 16-bit number placed in a 128-bit base
BluetoothBase == "00000000-0000-1000-8000-00805F9B34FB"
VendorBase    == "00000000-0000-1000-8000-00805F9B34FC"
uuid_from_u16(n) == [short |-> n, base |-> BluetoothBase]
\* 0x2a1c
TemperatureMeasurement == 10780
\* the characteristics a peripheral may expose: 0x2a1c, 0x2a1e, and 0x2a1c
\* in a base that is not the Bluetooth one
CharacteristicSets ==
    SUBSET { uuid_from_u16(TemperatureMeasurement), uuid_from_u16(TemperatureMeasurement + 2),
             [short |-> TemperatureMeasurement, base |-> VendorBase] }

\* notification payloads: a reading in Celsius (24.016), one in Fahrenheit
\* (57.936 F), and the same Celsius frame cut to 4 bytes or grown to 6
PayloadCelsius    == <<0, 208, 93, 0, 0>>
PayloadFahrenheit == <<1, 80, 226, 0, 0>>
PayloadShort      == <<0, 208, 93, 0>>
PayloadLong       == <<0, 208, 93, 0, 0, 0>>
Payloads == { PayloadCelsius, PayloadFahrenheit, PayloadShort, PayloadLong }

\* the i-th frame of a sensor that reports i degrees Celsius, i * 1000 < 2^24
Reading(i) == <<0, (1000 * i) % 256, ((1000 * i) \div 256) % 256, (1000 * i) \div 65536, 0>>

(***************************************************************************)
(* State.                                                                  *)
(***************************************************************************)
VARIABLES
    mainPc,       \* main(): "Start", "Launch", "Running", "Closed", "Exited"
    exitCode,     \* Option: the process exit code once main has returned
    thread,       \* the spawned thread: "unspawned", "running", "finished", "panicked", "killed"
    pc,           \* position of TemperatureSendor::run
    result,       \* "None" while run is executing, then "Ok", "Err" or "Panic"
    error,        \* the error run returned or the panic it raised, "None" otherwise
    failedAt,     \* the position at which run failed, "None" otherwise
    adapters,     \* the list manager.adapters() returned
    central,      \* Option: the adapter run uses
    scanning,     \* the adapters on which a scan was started
    discovered,   \* the peripherals the scanning adapter has discovered, in enumeration order
    sensor,       \* Option: the address of the peripheral find_sensor returned
    notify_char,  \* Option: the characteristic run subscribes to
    subscribed,   \* the stack accepted the subscription
    delivered,    \* history: payloads stream.next() yielded
    temp,         \* Option: the decoded sample about to be sent
    chan,         \* the mpsc channel: samples sent and not yet received
    txAlive,      \* the Sender has not been dropped
    rxAlive,      \* the Receiver has not been dropped
    sent,         \* history: samples tx.send accepted
    wakes,        \* history: number of request_repaint calls
    measures,     \* UI.measures
    lastPoll,     \* outcome of the try_recv of the last frame
    arrived,      \* history: samples try_recv returned
    peak          \* history: greatest length measures has had, inside frames too

vars == << mainPc, exitCode, thread, pc, result, error, failedAt, adapters, central,
           scanning, discovered, sensor, notify_char, subscribed, delivered, temp,
           chan, txAlive, rxAlive, sent, wakes, measures, lastPoll, arrived, peak >>

mainVars   == << mainPc, exitCode >>
stackVars  == << adapters, central, scanning, discovered, sensor, notify_char, subscribed >>
streamVars == << delivered, temp, chan, sent, wakes >>
uiVars     == << measures, lastPoll, arrived, peak >>

\* UI::new and VecDeque::with_capacity(10): capacity() of the empty window
Capacity == 10

Init ==
    /\ mainPc = "Start"
    /\ exitCode = <<>>
    /\ thread = "unspawned"
    /\ pc = "Init"
    /\ result = "None"
    /\ error = "None"
    /\ failedAt = "None"
    /\ adapters = <<>>
    /\ central = <<>>
    /\ scanning = {}
    /\ discovered = <<>>
    /\ sensor = <<>>
    /\ notify_char = <<>>
    /\ subscribed = FALSE
    /\ delivered = <<>>
    /\ temp = <<>>
    /\ chan = <<>>
    /\ txAlive = TRUE
    /\ rxAlive = TRUE
    /\ sent = <<>>
    /\ wakes = 0
    /\ measures = <<>>
    /\ lastPoll = "None"
    /\ arrived = <<>>
    /\ peak = 0

(***************************************************************************)
(* main().                                                                 *)
(***************************************************************************)
\* main returns Err before the window ran: everything is dropped, exit code 1
MainFails ==
    /\ mainPc' = "Exited"
    /\ exitCode' = <<1>>
    /\ txAlive' = FALSE
    /\ rxAlive' = FALSE
    /\ UNCHANGED << thread, pc, result, error, failedAt, stackVars, streamVars, uiVars >>

\* tokio::runtime::Runtime::new()?
RuntimeNew ==
    /\ mainPc = "Start"
    /\ \/ /\ mainPc' = "Launch"
          /\ UNCHANGED << exitCode, thread, pc, result, error, failedAt, stackVars,
                          streamVars, txAlive, rxAlive, uiVars >>
       \/ MainFails

\* eframe::run_native(..)?: the creation closure spawns the acquisition thread
RunNative ==
    /\ mainPc = "Launch"
    /\ \/ /\ mainPc' = "Running"
          /\ thread' = "running"
          /\ UNCHANGED << exitCode, pc, result, error, failedAt, stackVars, streamVars,
                          txAlive, rxAlive, uiVars >>
       \/ MainFails

\* the user closes the window: run_native returns Ok and drops the UI
CloseWindow ==
    /\ mainPc = "Running"
    /\ mainPc' = "Closed"
    /\ rxAlive' = FALSE
    /\ chan' = <<>>
    /\ UNCHANGED << exitCode, thread, pc, result, error, failedAt, stackVars, delivered,
                    temp, sent, wakes, txAlive, uiVars >>

\* main returns Ok(()): the process exits with code 0 and its threads end
MainReturn ==
    /\ mainPc = "Closed"
    /\ mainPc' = "Exited"
    /\ exitCode' = <<0>>
    /\ thread' = IF thread = "running" THEN "killed" ELSE thread
    /\ UNCHANGED << pc, result, error, failedAt, stackVars, streamVars, txAlive, rxAlive,
                    uiVars >>

(***************************************************************************)
(* UI::update, one frame.                                                  *)
(***************************************************************************)
\* Push with the capacity test off by one
Push_OffByOne(window, t) ==
    IF Len(window) > Capacity THEN Append(Tail(window), t) ELSE Append(window, t)

\* the window after a frame that received sample t
Push(window, t) ==
    IF Len(window) >= Capacity THEN Append(Tail(window), t) ELSE Append(window, t)

\* Frame that empties the window when it finds the channel disconnected
Frame_ClearOnDisconnect ==
    /\ mainPc = "Running"
    /\ IF chan # <<>>
       THEN /\ measures' = Push(measures, Head(chan))
            /\ arrived' = Append(arrived, Head(chan))
            /\ chan' = Tail(chan)
            /\ lastPoll' = "Ok"
            /\ peak' = IF Len(measures') > peak THEN Len(measures') ELSE peak
       ELSE /\ lastPoll' = IF txAlive THEN "Empty" ELSE "Disconnected"
            /\ measures' = IF txAlive THEN measures ELSE <<>>
            /\ UNCHANGED << arrived, chan, peak >>
    /\ UNCHANGED << mainVars, thread, pc, result, error, failedAt, stackVars, delivered,
                    temp, sent, wakes, txAlive, rxAlive >>

\* Frame receiving every queued sample, as a `while let` would
Frame_DrainAll ==
    /\ mainPc = "Running"
    /\ IF chan # <<>>
       THEN /\ measures' = SubSeq(measures \o chan,
                                  IF Len(measures) + Len(chan) > Capacity
                                  THEN Len(measures) + Len(chan) - Capacity + 1 ELSE 1,
                                  Len(measures) + Len(chan))
            /\ arrived' = arrived \o chan
            /\ chan' = <<>>
            /\ lastPoll' = "Ok"
            /\ peak' = IF Len(measures') > peak THEN Len(measures') ELSE peak
       ELSE /\ lastPoll' = IF txAlive THEN "Empty" ELSE "Disconnected"
            /\ UNCHANGED << measures, arrived, chan, peak >>
    /\ UNCHANGED << mainVars, thread, pc, result, error, failedAt, stackVars, delivered,
                    temp, sent, wakes, txAlive, rxAlive >>

\* Frame that polls the channel only while the sender is alive
Frame_StopOnDisconnect ==
    /\ mainPc = "Running"
    /\ IF chan # <<>> /\ txAlive
       THEN /\ measures' = IF Len(measures) >= Capacity
                           THEN Append(Tail(measures), Head(chan))
                           ELSE Append(measures, Head(chan))
            /\ arrived' = Append(arrived, Head(chan))
            /\ chan' = Tail(chan)
            /\ lastPoll' = "Ok"
            /\ peak' = IF Len(measures') > peak THEN Len(measures') ELSE peak
       ELSE /\ lastPoll' = IF txAlive THEN "Empty" ELSE "Disconnected"
            /\ UNCHANGED << measures, arrived, chan, peak >>
    /\ UNCHANGED << mainVars, thread, pc, result, error, failedAt, stackVars, delivered,
                    temp, sent, wakes, txAlive, rxAlive >>

\* the greatest length of the window while a frame that received t runs:
\* after the pop_front of lines 166-168 and after the push_back of line 169
FramePeak(window, t) ==
    LET popped == IF Len(window) >= Capacity THEN Tail(window) ELSE window
        pushed == Append(popped, t)
    IN  IF Len(pushed) > Len(popped) THEN Len(pushed) ELSE Len(popped)

Frame ==
    /\ mainPc = "Running"
    /\ IF chan # <<>>
       THEN /\ measures' = Push(measures, Head(chan))
            /\ arrived' = Append(arrived, Head(chan))
            /\ chan' = Tail(chan)
            /\ lastPoll' = "Ok"
            /\ peak' = IF FramePeak(measures, Head(chan)) > peak
                       THEN FramePeak(measures, Head(chan)) ELSE peak
       ELSE /\ lastPoll' = IF txAlive THEN "Empty" ELSE "Disconnected"
            /\ UNCHANGED << measures, arrived, chan, peak >>
    /\ UNCHANGED << mainVars, thread, pc, result, error, failedAt, stackVars, delivered,
                    temp, sent, wakes, txAlive, rxAlive >>

(***************************************************************************)
(* TemperatureSendor::run, on the acquisition thread.                      *)
(***************************************************************************)
Running == thread = "running"

\* Fail that starts run over instead of ending it
Fail_Retry(kind) ==
    /\ pc' = "Init"
    /\ UNCHANGED << result, error, failedAt, thread, txAlive >>

\* run returns Err(kind) through `?`; the unwrap of main's closure then panics
\* the thread, and unwinding drops the Sender
Fail(kind) ==
    /\ pc' = "Terminated"
    /\ result' = "Err"
    /\ error' = kind
    /\ failedAt' = pc
    /\ thread' = "panicked"
    /\ txAlive' = FALSE

\* an unwrap inside run panics
Panic(kind) ==
    /\ pc' = "Terminated"
    /\ result' = "Panic"
    /\ error' = kind
    /\ failedAt' = pc
    /\ thread' = "panicked"
    /\ txAlive' = FALSE

\* run moves on to position next
Goto(next) ==
    /\ pc' = next
    /\ UNCHANGED << result, error, failedAt, thread, txAlive >>

\* Manager::new().await?
NewManager ==
    /\ Running /\ pc = "Init"
    /\ \/ Goto("Manager")
       \/ Fail("ManagerError")
    /\ UNCHANGED << mainVars, stackVars, streamVars, rxAlive, uiVars >>

\* FirstAdapter taking the adapter enumerated last
FirstAdapter_Last(list) == IF list = <<>> THEN <<>> ELSE << list[Len(list)] >>

\* adapters.into_iter().nth(0): Option of the adapter run takes
FirstAdapter(list) == IF list = <<>> THEN <<>> ELSE << list[1] >>

\* manager.adapters().await? and the choice of central; the platform's
\* adapters are named by their enumeration index
SelectAdapter ==
    /\ Running /\ pc = "Manager"
    /\ \/ /\ Fail("AdaptersError")
          /\ UNCHANGED << adapters, central >>
       \/ \E n \in 0..MaxAdapters :
             /\ adapters' = [i \in 1..n |-> i - 1]
             /\ IF FirstAdapter(adapters') = <<>>
                THEN Fail("DeviceNotFound") /\ UNCHANGED central
                ELSE Goto("AdapterReady") /\ central' = FirstAdapter(adapters')
    /\ UNCHANGED << mainVars, scanning, discovered, sensor, notify_char, subscribed,
                    streamVars, rxAlive, uiVars >>

\* StartScan with the sleep after it left out
StartScan_SkipDwell ==
    /\ Running /\ pc = "AdapterReady"
    /\ \/ Goto("Dwelled") /\ scanning' = scanning \cup {central[1]}
       \/ Fail("ScanError") /\ UNCHANGED scanning
    /\ UNCHANGED << mainVars, adapters, central, discovered, sensor, notify_char,
                    subscribed, streamVars, rxAlive, uiVars >>

\* central.start_scan(ScanFilter::default()).await?
StartScan ==
    /\ Running /\ pc = "AdapterReady"
    /\ \/ Goto("Scanning") /\ scanning' = scanning \cup {central[1]}
       \/ Fail("ScanError") /\ UNCHANGED scanning
    /\ UNCHANGED << mainVars, adapters, central, discovered, sensor, notify_char,
                    subscribed, streamVars, rxAlive, uiVars >>

\* the scanning adapter hears a new peripheral; addresses are given in the
\* order of discovery
Advertise ==
    /\ mainPc # "Exited"
    /\ scanning # {}
    /\ pc \in {"Scanning", "Dwelled"}
    /\ Len(discovered) < MaxPeriph
    /\ \E props \in PeripheralProps :
          discovered' = Append(discovered,
                               [address |-> Len(discovered) + 1, properties |-> props])
    /\ UNCHANGED << mainVars, thread, pc, result, error, failedAt, adapters, central,
                    scanning, sensor, notify_char, subscribed, streamVars, txAlive,
                    rxAlive, uiVars >>

\* tokio::time::sleep(Duration::from_secs(2)).await
Dwell ==
    /\ Running /\ pc = "Scanning"
    /\ Goto("Dwelled")
    /\ UNCHANGED << mainVars, stackVars, streamVars, rxAlive, uiVars >>

\* name.contains(pat)
Contains(name, pat) ==
    \E i \in 1..(Len(name) - Len(pat) + 1) : SubSeq(name, i, i + Len(pat) - 1) = pat

\* the closure of find_sensor applied to p.properties().await.unwrap().unwrap()
Matches(props) ==
    \E i \in 1..Len(props.local_name) : Contains(props.local_name[i], Temperature)

RECURSIVE find_sensor(_)
\* the for loop of find_sensor over the enumerated peripherals
find_sensor(ps) ==
    IF ps = <<>> THEN [tag |-> "Err", address |-> 0]
    ELSE LET p == Head(ps)
         IN  IF p.properties.tag # "Some" THEN [tag |-> "Panic", address |-> p.address]
             ELSE IF Matches(p.properties) THEN [tag |-> "Ok", address |-> p.address]
             ELSE find_sensor(Tail(ps))

\* self.find_sensor(&central).await?
FindSensor ==
    /\ Running /\ pc = "Dwelled"
    /\ \/ Fail("PeripheralsError") /\ UNCHANGED sensor
       \/ LET r == find_sensor(discovered)
          IN  CASE r.tag = "Ok"    -> Goto("Selected") /\ sensor' = << r.address >>
                []  r.tag = "Err"   -> Fail("DeviceNotFound") /\ UNCHANGED sensor
                []  r.tag = "Panic" -> Panic("PropertiesUnwrap") /\ UNCHANGED sensor
    /\ UNCHANGED << mainVars, adapters, central, scanning, discovered, notify_char,
                    subscribed, streamVars, rxAlive, uiVars >>

\* sensor.connect().await?; the enumeration find_sensor walked is not read
\* again and is no longer tracked from here on
Connect ==
    /\ Running /\ pc = "Selected"
    /\ \/ Goto("Connected")
       \/ Fail("ConnectError")
    /\ discovered' = <<>>
    /\ UNCHANGED << mainVars, adapters, central, scanning, sensor, notify_char,
                    subscribed, streamVars, rxAlive, uiVars >>

\* sensor.discover_services().await?
DiscoverServices ==
    /\ Running /\ pc = "Connected"
    /\ \/ Goto("Discovered")
       \/ Fail("DiscoverError")
    /\ UNCHANGED << mainVars, stackVars, streamVars, rxAlive, uiVars >>

\* chars.iter().find(|c| c.uuid == uuid_from_u16(0x2a1c)): Option
FindCharacteristic(chars) ==
    IF uuid_from_u16(TemperatureMeasurement) \in chars
    THEN << uuid_from_u16(TemperatureMeasurement) >>
    ELSE <<>>

\* sensor.characteristics() and the lookup of the 0x2a1c characteristic
LocateCharacteristic ==
    /\ Running /\ pc = "Discovered"
    /\ \E chars \in CharacteristicSets :
          IF FindCharacteristic(chars) = <<>>
          THEN Fail("NoSuchCharacteristic") /\ UNCHANGED notify_char
          ELSE Goto("Located") /\ notify_char' = FindCharacteristic(chars)
    /\ UNCHANGED << mainVars, adapters, central, scanning, discovered, sensor,
                    subscribed, streamVars, rxAlive, uiVars >>

\* sensor.subscribe(notify_char).await?
Subscribe ==
    /\ Running /\ pc = "Located"
    /\ \/ Goto("Subscribed") /\ subscribed' = TRUE
       \/ Fail("SubscribeError") /\ UNCHANGED subscribed
    /\ UNCHANGED << mainVars, adapters, central, scanning, discovered, sensor,
                    notify_char, streamVars, rxAlive, uiVars >>

\* sensor.notifications().await?
Notifications ==
    /\ Running /\ pc = "Subscribed"
    /\ \/ Goto("Streaming")
       \/ Fail("NotificationsError")
    /\ UNCHANGED << mainVars, stackVars, streamVars, rxAlive, uiVars >>

\* NextNotification with the repaint requested for every notification
NextNotification_WakeAlways(data) ==
    /\ Running /\ pc = "Streaming"
    /\ delivered' = Append(delivered, data)
    /\ temp' = decode(data)
    /\ wakes' = wakes + 1
    /\ Goto(IF decode(data) = <<>> THEN "Streaming" ELSE "Sending")
    /\ UNCHANGED << mainVars, stackVars, chan, sent, rxAlive, uiVars >>

\* stream.next().await yields Some(data): the payload is decoded
NextNotification(data) ==
    /\ Running /\ pc = "Streaming"
    /\ delivered' = Append(delivered, data)
    /\ temp' = decode(data)
    /\ Goto(IF decode(data) = <<>> THEN "Streaming" ELSE "Sending")
    /\ UNCHANGED << mainVars, stackVars, chan, sent, wakes, rxAlive, uiVars >>

\* Send that ignores the error of a failed send and stays in the loop
Send_IgnoreError ==
    /\ Running /\ pc = "Sending"
    /\ temp' = <<>>
    /\ chan' = IF rxAlive THEN Append(chan, temp[1]) ELSE chan
    /\ sent' = IF rxAlive THEN Append(sent, temp[1]) ELSE sent
    /\ Goto(IF rxAlive THEN "Waking" ELSE "Streaming")
    /\ UNCHANGED << mainVars, stackVars, delivered, wakes, rxAlive, uiVars >>

\* Send that puts the sample at the front of the queue
Send_Front ==
    /\ Running /\ pc = "Sending"
    /\ temp' = <<>>
    /\ IF rxAlive
       THEN /\ chan' = << temp[1] >> \o chan
            /\ sent' = << temp[1] >> \o sent
            /\ Goto("Waking")
       ELSE /\ Fail("SendError")
            /\ UNCHANGED << chan, sent >>
    /\ UNCHANGED << mainVars, stackVars, delivered, wakes, rxAlive, uiVars >>

\* self.tx.send(temp)?
Send ==
    /\ Running /\ pc = "Sending"
    /\ temp' = <<>>
    /\ IF rxAlive
       THEN /\ chan' = Append(chan, temp[1])
            /\ sent' = Append(sent, temp[1])
            /\ Goto("Waking")
       ELSE /\ Fail("SendError")
            /\ UNCHANGED << chan, sent >>
    /\ UNCHANGED << mainVars, stackVars, delivered, wakes, rxAlive, uiVars >>

\* egui_ctx.request_repaint()
Wake ==
    /\ Running /\ pc = "Waking"
    /\ wakes' = wakes + 1
    /\ Goto("Streaming")
    /\ UNCHANGED << mainVars, stackVars, delivered, temp, chan, sent, rxAlive, uiVars >>

\* StreamEnd reporting the end of the stream as an error
StreamEnd_AsError ==
    /\ Running /\ pc = "Streaming"
    /\ Fail("StreamEnded")
    /\ UNCHANGED << mainVars, stackVars, streamVars, rxAlive, uiVars >>

\* stream.next().await yields None: run returns Ok(()) and the thread ends
StreamEnd ==
    /\ Running /\ pc = "Streaming"
    /\ pc' = "Terminated"
    /\ result' = "Ok"
    /\ thread' = "finished"
    /\ txAlive' = FALSE
    /\ UNCHANGED << mainVars, error, failedAt, stackVars, streamVars, rxAlive, uiVars >>

(***************************************************************************)
(* Specifications.                                                         *)
(***************************************************************************)
\* the stack delivers any of Payloads, at most MaxNotifs of them
Notify ==
    /\ Len(delivered) < MaxNotifs
    /\ \E data \in Payloads : NextNotification(data)

\* the stack delivers the readings 1, 2, ... degrees, at most WindowNotifs
NotifyReading ==
    /\ Len(delivered) < WindowNotifs
    /\ NextNotification(Reading(Len(delivered) + 1))

Startup ==
    \/ RuntimeNew \/ RunNative \/ NewManager \/ SelectAdapter \/ StartScan \/ Advertise
    \/ Dwell \/ FindSensor \/ Connect \/ DiscoverServices \/ LocateCharacteristic
    \/ Subscribe \/ Notifications

Next ==
    \/ Startup
    \/ Notify \/ Send \/ Wake \/ StreamEnd
    \/ Frame \/ CloseWindow \/ MainReturn

Spec == Init /\ [][Next]_vars

NextWindow ==
    \/ Startup
    \/ NotifyReading \/ Send \/ Wake \/ StreamEnd
    \/ Frame \/ CloseWindow \/ MainReturn

SpecWindow == Init /\ [][NextWindow]_vars

(***************************************************************************)
(* decode on its own: run stands at the head of the streaming loop, as     *)
(* Spec reaches it, and the stream delivers one buffer out of a bounded    *)
(* set, which NextNotification decodes.                                    *)
(***************************************************************************)
\* the byte at offset 0 and the bytes after it
FlagBytes == {0, 1, 2, 3, 128}
DataBytes == {0, 93, 208, 255}

\* buffers of up to MaxBufLen bytes
DecodeInputs ==
    { <<>> } \cup
    { <<f>> \o t : f \in FlagBytes,
                   t \in UNION { [1..k -> DataBytes] : k \in 0..(MaxBufLen - 1) } }

InitStreaming ==
    /\ mainPc = "Running"
    /\ exitCode = <<>>
    /\ thread = "running"
    /\ pc = "Streaming"
    /\ result = "None"
    /\ error = "None"
    /\ failedAt = "None"
    /\ adapters = <<0>>
    /\ central = <<0>>
    /\ scanning = {0}
    /\ discovered = <<>>
    /\ sensor = <<1>>
    /\ notify_char = << uuid_from_u16(TemperatureMeasurement) >>
    /\ subscribed = TRUE
    /\ delivered = <<>>
    /\ temp = <<>>
    /\ chan = <<>>
    /\ txAlive = TRUE
    /\ rxAlive = TRUE
    /\ sent = <<>>
    /\ wakes = 0
    /\ measures = <<>>
    /\ lastPoll = "None"
    /\ arrived = <<>>
    /\ peak = 0

\* the stream delivers one buffer of DecodeInputs
NotifyBuffer ==
    /\ delivered = <<>>
    /\ \E data \in DecodeInputs : NextNotification(data)

NextDecode == NotifyBuffer \/ Send \/ Wake

SpecDecode == InitStreaming /\ [][NextDecode]_vars

(***************************************************************************)
(* The channel between a pipeline that has reached the streaming loop and  *)
(* a user interface whose frames keep occurring: a frame that has a sample *)
(* to receive is not postponed for ever.                                   *)
(***************************************************************************)
NextFrames ==
    \/ NotifyReading \/ Send \/ Wake \/ StreamEnd
    \/ Frame \/ CloseWindow \/ MainReturn

SpecFrames == InitStreaming /\ [][NextFrames]_vars /\ WF_vars(Frame)

(***************************************************************************)
(* Vocabulary of the properties.                                           *)
(***************************************************************************)
IsPrefix(a, b) == Len(a) <= Len(b) /\ SubSeq(b, 1, Len(a)) = a

Last(q) == q[Len(q)]

WellFormed(data) == Len(data) = 5

RECURSIVE DecodeAll(_)
\* the samples of the well-formed payloads of ds, in order
DecodeAll(ds) ==
    IF ds = <<>> THEN <<>>
    ELSE (IF WellFormed(Head(ds)) THEN decode(Head(ds)) ELSE <<>>) \o DecodeAll(Tail(ds))

\* the positions inside the streaming loop
StreamingPcs == {"Streaming", "Sending", "Waking"}

\* the states of the protocol, in order, and the positions that make them up
StateOf(p) ==
    CASE p \in {"Init", "Manager"}          -> 1   \* Init
      [] p = "AdapterReady"                 -> 2   \* AdapterReady
      [] p \in {"Scanning", "Dwelled"}      -> 3   \* Scanning
      [] p = "Selected"                     -> 4   \* Selected
      [] p = "Connected"                    -> 5   \* Connected
      [] p \in {"Discovered", "Located"}    -> 6   \* Discovered
      [] p = "Subscribed"                   -> 7   \* Subscribed
      [] p \in StreamingPcs                 -> 8   \* Streaming
      [] p = "Terminated"                   -> 9   \* Terminated

\* the order of the positions before the streaming loop
PosOf(p) ==
    CASE p = "Init" -> 1 [] p = "Manager" -> 2 [] p = "AdapterReady" -> 3
      [] p = "Scanning" -> 4 [] p = "Dwelled" -> 5 [] p = "Selected" -> 6
      [] p = "Connected" -> 7 [] p = "Discovered" -> 8 [] p = "Located" -> 9
      [] p = "Subscribed" -> 10 [] p \in StreamingPcs -> 11 [] p = "Terminated" -> 12

\* run has taken a step
PipelineStepped ==
    \/ pc' # pc \/ result' # result \/ central' # central \/ scanning' # scanning
    \/ sensor' # sensor \/ notify_char' # notify_char \/ subscribed' # subscribed
    \/ delivered' # delivered \/ sent' # sent \/ wakes' # wakes \/ temp' # temp

\* a peripheral whose advertised local name contains "Temperature"
HasTemperatureName(p) ==
    /\ p.properties.tag = "Some"
    /\ p.properties.local_name # <<>>
    /\ Contains(p.properties.local_name[1], Temperature)

\* find_sensor has run on the enumeration in discovered
FindSensorActed ==
    \/ pc = "Selected"
    \/ pc = "Terminated" /\ failedAt = "Dwelled" /\ error # "PeripheralsError"

(***************************************************************************)
(* C1: a notification whose payload is not 5 bytes long sends nothing on   *)
(* the channel, requests no repaint and leaves run at the head of the      *)
(* streaming loop, still running; every sample that enters the channel is  *)
(* the decoding of the 5-byte payload delivered last.                      *)
(***************************************************************************)
C1_MalformedDropped ==
    [][ /\ (delivered' # delivered /\ ~WellFormed(Last(delivered')))
            => /\ chan' = chan /\ sent' = sent /\ wakes' = wakes /\ temp' = <<>>
               /\ pc' = "Streaming" /\ result' = "None" /\ thread' = "running"
        /\ sent' # sent
            => /\ delivered # <<>> /\ WellFormed(Last(delivered))
               /\ sent' = Append(sent, decode(Last(delivered))[1])
               /\ chan' = Append(chan, decode(Last(delivered))[1]) ]_vars

\* a 4-byte and a 6-byte frame were dropped and the frame after them was sent
C1_Witness ==
    /\ delivered = << PayloadShort, PayloadLong, PayloadCelsius >>
    /\ sent = decode(PayloadCelsius)
    /\ wakes = 1

(***************************************************************************)
(* C2 as stated: whenever no send is in flight, the samples enqueued are   *)
(* exactly the decoded 5-byte payloads delivered, in delivery order.       *)
(***************************************************************************)
C2_Original == pc # "Sending" => sent = DecodeAll(delivered)

(***************************************************************************)
(* C2 amended: the samples enqueued are the decoded 5-byte payloads        *)
(* delivered, in delivery order, none reordered, duplicated or coalesced;  *)
(* the only accepted payload that can be missing is the last one, either   *)
(* still to be sent or refused by a send that failed because the receiver  *)
(* was dropped, which ends run.  While the receiver lives the channel      *)
(* holds the enqueued samples not yet received, in order.                  *)
(***************************************************************************)
C2_OrderPreserved ==
    LET D == DecodeAll(delivered)
    IN  /\ IsPrefix(sent, D)
        /\ Len(D) - Len(sent) <= 1
        /\ Len(sent) < Len(D)
              => \/ pc = "Sending" /\ temp = << Last(D) >>
                 \/ pc = "Terminated" /\ error = "SendError" /\ failedAt = "Sending"
        /\ rxAlive => sent = arrived \o chan

\* two different samples around a dropped frame, enqueued in delivery order
C2_Witness ==
    /\ delivered = << PayloadFahrenheit, PayloadShort, PayloadCelsius >>
    /\ sent = decode(PayloadFahrenheit) \o decode(PayloadCelsius)
    /\ chan = sent

(***************************************************************************)
(* C3: the rolling window holds the last min(arrivals, 10) samples that    *)
(* arrived, in arrival order; after the arrivals 1..12 it holds 3..12.     *)
(***************************************************************************)
C3_RollingWindow ==
    LET n == Len(arrived)
        k == IF n < 10 THEN n ELSE 10
    IN  /\ Len(measures) = k
        /\ measures = SubSeq(arrived, n - k + 1, n)
        /\ arrived = [i \in 1..12 |-> F32FromU32(i)]
              => measures = [i \in 1..10 |-> F32FromU32(i + 2)]

\* twelve samples have arrived
C3_Witness ==
    /\ arrived = [i \in 1..12 |-> F32FromU32(i)]
    /\ measures = [i \in 1..10 |-> F32FromU32(i + 2)]

(***************************************************************************)
(* C4: run only moves forward through the states Init .. Terminated; every *)
(* step outside the streaming loop leaves its position for a later one; a  *)
(* failure leads straight to Terminated, after which run does nothing; a   *)
(* sample is sent only inside the streaming loop, after subscribe          *)
(* succeeded.                                                              *)
(***************************************************************************)
C4_ForwardOnly ==
    [][ /\ StateOf(pc') >= StateOf(pc)
        /\ (PipelineStepped /\ pc \notin StreamingPcs) => PosOf(pc') > PosOf(pc)
        /\ (result = "None" /\ result' \in {"Err", "Panic"})
              => /\ pc' = "Terminated"
                 /\ UNCHANGED << central, scanning, sensor, notify_char, subscribed,
                                 delivered, sent, wakes >>
        /\ pc = "Terminated" => ~PipelineStepped
        /\ sent' # sent => StateOf(pc) = 8 /\ subscribed ]_vars

\* run went through every state, looped in Streaming and ended
C4_Witness ==
    /\ pc = "Terminated" /\ result = "Ok"
    /\ subscribed /\ Len(sent) >= 2

(***************************************************************************)
(* C5: request_repaint has been called once for every sample enqueued,     *)
(* except that the call for the newest sample is still to come while run   *)
(* stands between the send and the call; a wake is pulsed only from that   *)
(* position, so never for a dropped payload or a failed send.              *)
(***************************************************************************)
C5_WakePerSample ==
    [][ wakes' # wakes
          => /\ wakes' = wakes + 1 /\ pc = "Waking" /\ sent' = sent
             /\ wakes' = Len(sent) ]_vars
    /\ [](wakes = IF pc = "Waking" THEN Len(sent) - 1 ELSE Len(sent))

\* two wakes for two samples, none for the dropped frame nor the failed send
C5_Witness ==
    /\ wakes = 2 /\ Len(sent) = 2
    /\ \E i \in 1..Len(delivered) : ~WellFormed(delivered[i])

(***************************************************************************)
(* C6 as stated: once run has terminated it stays terminated, no further   *)
(* sample is enqueued, and every sample the window holds stays in it.      *)
(***************************************************************************)
C6_Original ==
    [][ pc = "Terminated"
          => /\ pc' = "Terminated" /\ sent' = sent
             /\ \A i \in 1..Len(measures) :
                   \E j \in 1..Len(measures') : measures'[j] = measures[i] ]_vars

(***************************************************************************)
(* C6 amended: once run has terminated it never runs again and never       *)
(* enqueues another sample; its termination does not end the main thread,  *)
(* whose frames go on; after it the window changes only by a frame that    *)
(* receives a sample enqueued before the termination (evicting the oldest  *)
(* when full), and never once the channel is empty.                        *)
(***************************************************************************)
C6_TerminatedForGood ==
    [][ /\ pc = "Terminated"
          => /\ pc' = "Terminated" /\ thread' # "running" /\ ~PipelineStepped
             /\ measures' # measures
                   => /\ chan # <<>> /\ chan' = Tail(chan)
                      /\ measures' = (IF Len(measures) < 10 THEN measures
                                      ELSE Tail(measures)) \o << Head(chan) >>
        /\ (pc # "Terminated" /\ pc' = "Terminated")
              => /\ UNCHANGED << mainPc, exitCode, measures, chan >>
                 /\ mainPc = "Running" => ENABLED Frame ]_vars

\* a frame ran after run had ended and found the channel disconnected
C6_Witness ==
    /\ pc = "Terminated" /\ mainPc = "Running"
    /\ lastPoll = "Disconnected"
    /\ Len(measures) = 10 /\ Len(arrived) = 11

(***************************************************************************)
(* C7 as stated: when a startup step of run has failed, the process does   *)
(* not exit with code 0.                                                   *)
(***************************************************************************)
StartupFailed ==
    /\ result = "Err"
    /\ failedAt \in {"Manager", "AdapterReady", "Selected", "Connected",
                     "Discovered", "Located"}

C7_Claim == StartupFailed => exitCode # <<0>>

(***************************************************************************)
(* C8 as stated: find_sensor returns the first enumerated peripheral whose *)
(* local name contains "Temperature", and fails with DeviceNotFound        *)
(* exactly when no enumerated peripheral has such a name.                  *)
(***************************************************************************)
C8_Claim ==
    FindSensorActed =>
        LET matching == { i \in 1..Len(discovered) : HasTemperatureName(discovered[i]) }
        IN  IF matching = {}
            THEN result = "Err" /\ error = "DeviceNotFound"
            ELSE /\ pc = "Selected"
                 /\ \E i \in matching :
                       /\ \A j \in matching : i <= j
                       /\ sensor = << discovered[i].address >>

(***************************************************************************)
(* C9 as stated: a peripheral without properties or without a local name   *)
(* is skipped: it never makes run fail or panic, and a matching peripheral *)
(* enumerated after it is still selected.                                  *)
(***************************************************************************)
C9_Claim ==
    /\ ~(result = "Panic" /\ failedAt = "Dwelled")
    /\ \A i \in 1..Len(discovered) :
          (/\ FindSensorActed
           /\ HasTemperatureName(discovered[i])
           /\ \A j \in 1..(i - 1) :
                 \/ discovered[j].properties.tag # "Some"
                 \/ discovered[j].properties.local_name = <<>>)
             => sensor = << discovered[i].address >>

(***************************************************************************)
(* C10: with at least one adapter reported, run takes the adapter at       *)
(* enumeration index 0, and scans on no other; with none reported it fails *)
(* with DeviceNotFound without having started a scan.                      *)
(***************************************************************************)
C10_FirstAdapter ==
    /\ central # <<>> => adapters # <<>> /\ central = << adapters[1] >>
    /\ scanning \subseteq { central[i] : i \in 1..Len(central) }
    /\ (failedAt = "Manager" /\ error # "AdaptersError")
          => /\ adapters = <<>> /\ central = <<>> /\ scanning = {}
             /\ result = "Err" /\ error = "DeviceNotFound"
    /\ (PosOf(pc) > PosOf("Manager") /\ failedAt \notin {"Init", "Manager"})
          => adapters # <<>> /\ central = << adapters[1] >>

\* two adapters were reported and the scan runs on the first
C10_Witness ==
    /\ Len(adapters) = 2
    /\ scanning = { adapters[1] }
    /\ pc = "Streaming"

C12_SendFailureEndsLoop ==
    [][ /\ (pc = "Sending" /\ ~rxAlive /\ PipelineStepped)
              => /\ pc' = "Terminated" /\ result' = "Err" /\ error' = "SendError"
                 /\ thread' = "panicked"
                 /\ UNCHANGED << delivered, sent, chan, wakes >>
        /\ error = "SendError"
              => /\ UNCHANGED << delivered, temp, sent, chan, wakes, pc, result, error >>
                 /\ thread' # "running" ]_vars
    /\ [](error = "SendError"
            => /\ pc = "Terminated" /\ failedAt = "Sending" /\ ~rxAlive
               /\ temp = <<>> /\ wakes = Len(sent))

\* the send of the second sample failed while the stream had more to deliver
C12_Witness ==
    /\ error = "SendError"
    /\ Len(sent) = 1 /\ wakes = 1
    /\ Len(DecodeAll(delivered)) = 2
    /\ Len(delivered) < MaxNotifs

(***************************************************************************)
(* C13: when the stream is exhausted run leaves the loop and returns       *)
(* Ok(()): no error is recorded and the acquisition thread finishes        *)
(* without panicking, every accepted payload having been enqueued.         *)
(***************************************************************************)
C13_StreamEndIsSuccess ==
    [][ (pc = "Streaming" /\ pc' = "Terminated")
          => /\ result' = "Ok" /\ error' = "None" /\ failedAt' = "None"
             /\ thread' = "finished"
             /\ UNCHANGED << delivered, sent, chan, wakes >> ]_vars
    /\ [](result = "Ok"
            => /\ pc = "Terminated" /\ thread = "finished" /\ error = "None"
               /\ subscribed /\ sent = DecodeAll(delivered))

\* the stream ended after a sample and the window is still open
C13_Witness ==
    /\ result = "Ok" /\ thread = "finished"
    /\ mainPc = "Running"
    /\ Len(sent) = 1

(***************************************************************************)
(* Vocabulary of the properties of decode, under SpecDecode.               *)
(***************************************************************************)
\* the buffer that was decoded and what decode returned for it
DecodedBuf == delivered[1]
DecodeOut  == sent \o temp

\* a binary32 value of the representation: zero or normalised
IsF32(x) ==
    \/ x = <<0, 0, 0>>
    \/ x[1] \in {0, 1} /\ x[2] >= 8388608 /\ x[2] < 16777216

RECURSIVE TimesPow2(_, _)
\* m * 2^j, or -1 when that is 2^31 or more
TimesPow2(m, j) ==
    IF j = 0 THEN m
    ELSE IF m >= 1073741824 THEN -1
    ELSE TimesPow2(2 * m, j - 1)

\* x is the binary32 value nearest to m / 1000, for an integer m >= 0:
\* |M * 2^e - m / 1000| <= 2^e / 2, multiplied by 125 * 2^(-e) and taken to
\* integers (a tie would need a difference of 62.5)
NearestToThousandth(x, m) ==
    IF m = 0 THEN x = <<0, 0, 0>>
    ELSE /\ x[1] = 0 /\ x[2] >= 8388608 /\ x[2] < 16777216 /\ x[3] <= -3
         /\ LET t == TimesPow2(m, (-x[3]) - 3)
                d == 125 * x[2] - t
            IN  t >= 0 /\ d >= -62 /\ d <= 62

\* 24.016 as binary32: 12591301 * 2^-19 = 24.016000747680664
F32_24_016 == <<0, 12591301, -19>>

(***************************************************************************)
(* C14: decode yields a sample if and only if the buffer is 5 bytes long;  *)
(* for a 5-byte buffer it yields one binary32 value whatever the bytes.    *)
(***************************************************************************)
C14_LengthDiscipline ==
    delivered # <<>> =>
        /\ DecodeOut # <<>> <=> Len(DecodedBuf) = 5
        /\ Len(DecodedBuf) = 5 => Len(DecodeOut) = 1 /\ IsF32(DecodeOut[1])
        /\ Len(DecodedBuf) # 5 => pc = "Streaming" /\ sent = <<>>

\* a 5-byte buffer of extreme bytes was decoded and its sample sent
C14_Witness ==
    /\ delivered = << <<128, 255, 255, 255, 255>> >>
    /\ Len(sent) = 1 /\ IsF32(sent[1])

(***************************************************************************)
(* C15 as stated: only bit 0 of the byte at offset 0 selects the unit: a   *)
(* 5-byte payload decodes to what the payload with the bits 1..7 of that   *)
(* byte cleared decodes to.                                                *)
(***************************************************************************)
C15_Claim ==
    (delivered # <<>> /\ Len(DecodedBuf) = 5)
        => DecodeOut = decode([DecodedBuf EXCEPT ![1] = DecodedBuf[1] % 2])

(***************************************************************************)
(* C16: the byte at offset 4 does not affect the sample: replacing it by   *)
(* any byte gives the same result; 00 D0 5D 00 xx decodes to 24.016.       *)
(***************************************************************************)
C16_TopByteMasked ==
    (delivered # <<>> /\ Len(DecodedBuf) = 5)
        => /\ pc = "Sending"
                 => \A top \in 0..255 : decode([DecodedBuf EXCEPT ![5] = top]) = temp
           /\ \A top \in DataBytes : decode([DecodedBuf EXCEPT ![5] = top]) = DecodeOut
           /\ SubSeq(DecodedBuf, 1, 4) = <<0, 208, 93, 0>> => DecodeOut = << F32_24_016 >>

\* 00 D0 5D 00 FF was decoded to 24.016
C16_Witness ==
    /\ delivered = << <<0, 208, 93, 0, 255>> >>
    /\ sent = << F32_24_016 >>

(***************************************************************************)
(* C17: with the byte at offset 0 equal to 0x00 the sample is the binary32 *)
(* value nearest to m / 1000, where m = b1 + 256 b2 + 65536 b3 is the      *)
(* little-endian unsigned value of the bytes at offsets 1..3,              *)
(* 0 <= m < 2^24; it is never negative; 00 D0 5D 00 00 gives 24.016.       *)
(***************************************************************************)
C17_Millidegrees ==
    (delivered # <<>> /\ Len(DecodedBuf) = 5 /\ DecodedBuf[1] = 0)
        => LET m == DecodedBuf[2] + 256 * DecodedBuf[3] + 65536 * DecodedBuf[4]
           IN  /\ m >= 0 /\ m < 16777216
               /\ Len(DecodeOut) = 1
               /\ NearestToThousandth(DecodeOut[1], m)
               /\ m = 24016 => DecodeOut = << F32_24_016 >>

\* 00 D0 5D 00 00 was decoded to 24.016
C17_Witness ==
    /\ delivered = << <<0, 208, 93, 0, 0>> >>
    /\ sent = << F32_24_016 >>

(***************************************************************************)
(* C18: a frame polls the channel once, without blocking: it takes the     *)
(* sample at the head of the queue and no other, however many are queued,  *)
(* or finds the queue empty and changes nothing; a full window loses its   *)
(* oldest sample before the new one is appended, so the window is never    *)
(* longer than 10, inside a frame either.                                  *)
(***************************************************************************)
C18_OnePollPerFrame ==
    [][ /\ (arrived' # arrived \/ measures' # measures)
              => /\ mainPc = "Running" /\ chan # <<>>
                 /\ chan' = Tail(chan)
                 /\ arrived' = Append(arrived, Head(chan))
                 /\ measures' = (IF Len(measures) >= 10 THEN Tail(measures)
                                 ELSE measures) \o << Head(chan) >>
                 /\ lastPoll' = "Ok"
        /\ (Len(chan') < Len(chan) /\ mainPc' = "Running")
              => chan' = Tail(chan) /\ arrived' # arrived
        /\ (lastPoll' # lastPoll /\ lastPoll' # "Ok")
              => chan = <<>> /\ UNCHANGED << chan, measures, arrived >> ]_vars
    /\ [](Len(measures) <= peak /\ peak <= 10)
    /\ [](mainPc = "Running" => ENABLED Frame)

\* a frame evicted the oldest sample of a full window and left a sample queued
C18_Witness ==
    /\ lastPoll = "Ok"
    /\ Len(arrived) = 11 /\ Len(measures) = 10 /\ peak = 10
    /\ chan # <<>>

(***************************************************************************)
(* C19: while the window is open the samples enqueued are those received   *)
(* followed by those queued, so each is received once and in enqueue       *)
(* order, and the rolling window holds the latest received ones; with      *)
(* frames that keep occurring the n-th sample enqueued is eventually       *)
(* received, whether or not the pipeline has terminated meanwhile, unless  *)
(* the window is closed first; once the sender is dropped and the queue is *)
(* empty, no step changes the rolling window.                              *)
(***************************************************************************)
C19_EverySampleArrives ==
    /\ [](mainPc = "Running" => arrived \o chan = sent)
    /\ [](/\ IsPrefix(arrived, sent)
          /\ measures = SubSeq(arrived,
                               IF Len(arrived) > 10 THEN Len(arrived) - 9 ELSE 1,
                               Len(arrived)))
    /\ \A n \in 1..WindowNotifs :
          (Len(sent) >= n) ~> (Len(arrived) >= n \/ mainPc # "Running")
    /\ [][(~txAlive /\ chan = <<>>) => measures' = measures]_vars

\* the pipeline has terminated, every reading it enqueued has been received,
\* and a later frame found the channel disconnected
C19_Witness ==
    /\ pc = "Terminated" /\ ~txAlive /\ mainPc = "Running"
    /\ Len(sent) = WindowNotifs /\ arrived = sent /\ chan = <<>>
    /\ lastPoll = "Disconnected"
    /\ measures = SubSeq(sent, WindowNotifs - 9, WindowNotifs)

====
